---- MODULE Spec2Model ----
(***************************************************************************)
(* Model of the biofilm visualisation programs:                            *)
(*   video_visualization.py  - the video script (ingest, tick index,       *)
(*                             plot bounds, animate, save / fallback)      *)
(*   visualisation_app.py    - TkinterBiofilmViewer (final-state viewer)   *)
(*                                                                         *)
(* One behaviour runs one program (prog) on one CSV file (csv).            *)
(*                                                                         *)
(* Numbers.  Every CSV cell is a record [k, v]:                            *)
(*   k = "num"   numeric text, parsed by read_csv to a float               *)
(*   k = "str"   numeric text that read_csv left as a str because its      *)
(*               column also holds non-numeric text (object dtype)         *)
(*   k = "bad"   non-numeric text without '#'                              *)
(*   k = "hash"  text containing '#'                                       *)
(*   k = "nan"   blank cell (NaN)                                          *)
(*   k = "cell" / "eps" / "other"   the agent_type text                    *)
(* The tick_num text is kept in halves (v = 3 is the text "1.5") so that   *)
(* astype(int) is a real truncation; all other numeric cells are in units. *)
(* Patch geometry is kept doubled (x2 = 2 * x) so that diameter / 2 and    *)
(* rect_len / 2 are exact integers.                                        *)
(***************************************************************************)
EXTENDS Integers, Sequences, FiniteSets, TLC

VARIABLES prog, csv, pc, df, time_steps, plot_bounds,
          ax_patches, eps_patches, cell_patches, title,
          frame, frames, attempts, results, log, raised, err

vars == <<prog, csv, pc, df, time_steps, plot_bounds,
          ax_patches, eps_patches, cell_patches, title,
          frame, frames, attempts, results, log, raised, err>>

\* ------------------------------------------------------------------ bounds
MaxRows == 2
MaxTick2 == 4
MaxCalls == 3

\* ------------------------------------------------------------ input cells
Num(n) == [k |-> "num", v |-> n]
NaN == [k |-> "nan", v |-> 0]
Hash == [k |-> "hash", v |-> 0]
Bad == [k |-> "bad", v |-> 0]
Txt(s) == [k |-> s, v |-> 0]

numeric_columns == <<"pos_X", "pos_Y", "diameter", "length", "orientation_X", "orientation_Y">>

Columns == {"tick_num", "agent_type"} \cup {numeric_columns[i] : i \in 1..Len(numeric_columns)}

MkRow(t, a, x, y, d, l, ox, oy) ==
    [tick_num |-> t, agent_type |-> a, pos_X |-> x, pos_Y |-> y,
     diameter |-> d, length |-> l, orientation_X |-> ox, orientation_Y |-> oy]

BaseRow == MkRow(Num(0), Txt("cell"), Num(0), Num(0), Num(2), Num(4), Num(1), Num(0))

\* rows that differ from BaseRow in the tick text
TickRows == {[BaseRow EXCEPT !.tick_num = Num(t)] : t \in 0..MaxTick2}

\* rows that differ from BaseRow by one blank, '#' or non-numeric cell
DirtyRows ==
    {[BaseRow EXCEPT ![c] = tok] :
        c \in {"tick_num", "pos_X", "diameter", "orientation_X"}, tok \in {NaN, Hash, Bad}}

\* rows that differ from BaseRow in type, place, size and heading
Places == {<<0, 0, 1, 0>>, <<3, 1, 0, 1>>, <<-2, 3, 0, -1>>}
Sizes == {<<2, 4>>, <<2, 2>>, <<2, 1>>, <<-2, -2>>}
ShapeRows ==
    {MkRow(Num(MaxTick2), Txt("cell"), Num(p[1]), Num(p[2]), Num(s[1]), Num(s[2]), Num(p[3]), Num(p[4])) :
        p \in Places, s \in Sizes}
    \cup {MkRow(Num(MaxTick2), Txt(a), Num(x), Num(1), Num(d), Num(0), Num(0), Num(0)) :
        a \in {"eps", "other"}, x \in {5}, d \in {4, 0}}

RowPool == TickRows \cup DirtyRows \cup ShapeRows

Files == UNION {[1..n -> RowPool] : n \in 0..MaxRows}

\* --------------------------------------------------------------- helpers
SetMin(S) == CHOOSE m \in S : \A o \in S : m <= o
SetMax(S) == CHOOSE m \in S : \A o \in S : m >= o
Max2(a, b) == IF a >= b THEN a ELSE b

\* ------------------------------------------------------------- ingestion
\* pd.read_csv: a column holding any non-numeric text is read as object
\* dtype, and then its numeric texts stay str
ObjectColumn(file, c) == \E i \in 1..Len(file) : file[i][c].k \in {"bad", "hash"}

read_csv(file) ==
    [i \in 1..Len(file) |->
        [c \in Columns |->
            IF file[i][c].k = "num" /\ ObjectColumn(file, c)
            THEN [k |-> "str", v |-> file[i][c].v]
            ELSE file[i][c]]]

\* df.dropna(): rows with a NaN in any column go
HasNaN(r, cols) == \E c \in cols : r[c].k = "nan"
dropna(d, cols) == SelectSeq(d, LAMBDA r : ~HasNaN(r, cols))

\* df[~df.astype(str).apply(lambda x: x.str.contains('#')).any(axis=1)]
drop_hash(d) == SelectSeq(d, LAMBDA r : ~(\E c \in Columns : r[c].k = "hash"))

\* pd.to_numeric(errors='coerce') on one cell
to_numeric(cell) ==
    IF cell.k \in {"num", "str"} THEN Num(cell.v) ELSE NaN

coerce(d, cols) ==
    [i \in 1..Len(d) |->
        [c \in Columns |-> IF c \in cols THEN to_numeric(d[i][c]) ELSE d[i][c]]]

\* astype(int) on a float whose value is h halves: truncation toward zero
astype_int(h) == IF h >= 0 THEN h \div 2 ELSE -((-h) \div 2)

tick_astype_int(d) ==
    [i \in 1..Len(d) |-> [d[i] EXCEPT !.tick_num = Num(astype_int(d[i].tick_num.v))]]

NumericSet == {numeric_columns[i] : i \in 1..Len(numeric_columns)}

\* video_visualization.py, the try block
video_ingest(file) ==
    LET d1 == drop_hash(dropna(read_csv(file), Columns))
        d2 == tick_astype_int(dropna(coerce(d1, {"tick_num"}), {"tick_num"}))
        d3 == coerce(d2, NumericSet)
    IN dropna(d3, NumericSet)

\* TkinterBiofilmViewer.load_data, the try block
viewer_ingest(file) ==
    LET d1 == drop_hash(dropna(read_csv(file), Columns))
    IN tick_astype_int(dropna(coerce(d1, {"tick_num"}), {"tick_num"}))

\* sorted(df['tick_num'].unique())
RECURSIVE unique(_)
unique(s) ==
    IF s = <<>> THEN <<>>
    ELSE LET u == unique(SubSeq(s, 1, Len(s) - 1))
             x == s[Len(s)]
         IN IF \E i \in 1..Len(u) : u[i] = x THEN u ELSE Append(u, x)

RECURSIVE Insert(_, _)
Insert(s, x) ==
    IF s = <<>> THEN <<x>>
    ELSE IF x <= Head(s) THEN <<x>> \o s
    ELSE <<Head(s)>> \o Insert(Tail(s), x)

RECURSIVE sorted(_)
sorted(s) == IF s = <<>> THEN <<>> ELSE Insert(sorted(Tail(s)), Head(s))

tick_column(d) == [i \in 1..Len(d) |-> d[i].tick_num.v]

TimeStepsNotUnique(d) == sorted(tick_column(d))

TimeStepsOf(d) == sorted(unique(tick_column(d)))

\* ------------------------------------------------------- viewport (bounds)
NoBounds == [min_x |-> 0, max_x |-> 0, min_y |-> 0, max_y |-> 0]
DefaultBounds == [min_x |-> 0, max_x |-> 100, min_y |-> 0, max_y |-> 100]

TickData(d, tick) == SelectSeq(d, LAMBDA r : r.tick_num.v = tick)

ColVals(d, c) == {d[i][c].v : i \in 1..Len(d)}

\* padding = max(max_diameter, max_length) * 2
padding(ltd) == Max2(SetMax(ColVals(ltd, "diameter")), SetMax(ColVals(ltd, "length"))) * 2

calc_bounds(d, ts) ==
    IF ts # <<>>
    THEN LET ltd == TickData(d, ts[Len(ts)])
         IN IF ltd # <<>>
            THEN [min_x |-> SetMin(ColVals(ltd, "pos_X")) - padding(ltd),
                  max_x |-> SetMax(ColVals(ltd, "pos_X")) + padding(ltd),
                  min_y |-> SetMin(ColVals(ltd, "pos_Y")) - padding(ltd),
                  max_y |-> SetMax(ColVals(ltd, "pos_Y")) + padding(ltd)]
            ELSE DefaultBounds
    ELSE DefaultBounds

\* arithmetic on a str cell raises TypeError (the viewer never coerces these)
NotFloat(d, cols) == \E i \in 1..Len(d) : \E c \in cols : d[i][c].k # "num"

\* ---------------------------------------------------------------- geometry
Identity == [deg |-> 0, tx2 |-> 0, ty2 |-> 0]

Rot(deg, p) ==
    CASE deg = 0 -> p
      [] deg = 90 -> <<-p[2], p[1]>>
      [] deg = 180 -> <<-p[1], -p[2]>>
      [] deg = -90 -> <<p[2], -p[1]>>

NormDeg(a) == IF a > 180 THEN a - 360 ELSE IF a <= -180 THEN a + 360 ELSE a

\* Affine2D.rotate_deg: the rotation is applied after what the transform already does
rotate_deg(T, a) ==
    LET t == Rot(a, <<T.tx2, T.ty2>>)
    IN [deg |-> NormDeg(T.deg + a), tx2 |-> t[1], ty2 |-> t[2]]

\* Affine2D.translate: the shift is applied after what the transform already does
translate(T, x, y) == [T EXCEPT !.tx2 = @ + 2 * x, !.ty2 = @ + 2 * y]

\* the image of a (doubled) local point under the transform
Apply(T, p) == LET q == Rot(T.deg, p) IN <<q[1] + T.tx2, q[2] + T.ty2>>

\* np.degrees(np.arctan2(y, x)) for axis-aligned headings
arctan2_deg(y, x) ==
    CASE y = 0 /\ x >= 0 -> 0
      [] y > 0 -> 90
      [] y = 0 /\ x < 0 -> 180
      [] y < 0 -> -90

Circle(cx2, cy2, r2, T) ==
    [kind |-> "circle", x2 |-> cx2, y2 |-> cy2, w2 |-> 0, h2 |-> 0, r2 |-> r2, T |-> T]

FancyBboxPatch(x2, y2, w2, h2, T) ==
    [kind |-> "rect", x2 |-> x2, y2 |-> y2, w2 |-> w2, h2 |-> h2, r2 |-> 0, T |-> T]

\* Circle((pos_X, pos_Y), diameter / 2)
eps_circle(r) == Circle(2 * r.pos_X.v, 2 * r.pos_Y.v, r.diameter.v, Identity)

cell_transform_translate_first(r) ==
    rotate_deg(translate(Identity, r.pos_X.v, r.pos_Y.v),
               arctan2_deg(r.orientation_Y.v, r.orientation_X.v))

\* t = Affine2D().rotate_deg(angle_deg).translate(pos_X, pos_Y)
cell_transform(r) ==
    translate(rotate_deg(Identity, arctan2_deg(r.orientation_Y.v, r.orientation_X.v)),
              r.pos_X.v, r.pos_Y.v)

rect_len(r) == r.length.v - r.diameter.v

\* rect, left_cap, right_cap of one cell
cell_shapes(r) ==
    LET w == r.diameter.v
        t == cell_transform(r)
    IN <<FancyBboxPatch(-rect_len(r), -w, 2 * rect_len(r), 2 * w, t),
         Circle(-rect_len(r), 0, w, t),
         Circle(rect_len(r), 0, w, t)>>

RECURSIVE Flatten(_)
Flatten(ss) == IF ss = <<>> THEN <<>> ELSE Head(ss) \o Flatten(Tail(ss))

Cells(td) == SelectSeq(td, LAMBDA r : r.agent_type.k = "cell")
Eps(td) == SelectSeq(td, LAMBDA r : r.agent_type.k = "eps")

draw_eps(td) == [i \in 1..Len(Eps(td)) |-> eps_circle(Eps(td)[i])]
draw_cells(td) == Flatten([i \in 1..Len(Cells(td)) |-> cell_shapes(Cells(td)[i])])

\* patch.remove(): the patch leaves the axis
RECURSIVE RemoveOne(_, _)
RemoveOne(s, p) ==
    IF s = <<>> THEN <<>>
    ELSE IF Head(s) = p THEN Tail(s)
    ELSE <<Head(s)>> \o RemoveOne(Tail(s), p)

RECURSIVE RemoveAll(_, _)
RemoveAll(s, ps) == IF ps = <<>> THEN s ELSE RemoveAll(RemoveOne(s, Head(ps)), Tail(ps))

\* ------------------------------------------------------------------- state
Init ==
    /\ prog \in {"video", "viewer"}
    /\ csv \in Files
    /\ pc = "ingest"
    /\ df = <<>>
    /\ time_steps = <<>>
    /\ plot_bounds = NoBounds
    /\ ax_patches = <<>>
    /\ eps_patches = <<>>
    /\ cell_patches = <<>>
    /\ title = -1
    /\ frame = 0
    /\ frames = <<>>
    /\ attempts = <<>>
    /\ results = <<>>
    /\ log = <<>>
    /\ raised = "none"
    /\ err = "none"

\* ------------------------------------------------------------ video script
\* lines 18-41: the ingestion try block
VideoIngest ==
    /\ prog = "video" /\ pc = "ingest"
    /\ df' = video_ingest(csv)
    /\ pc' = "time_steps"
    /\ UNCHANGED <<prog, csv, time_steps, plot_bounds, ax_patches, eps_patches,
                   cell_patches, title, frame, frames, attempts, results, log, raised, err>>

\* lines 43-46: time_steps, and the two prints; time_steps[0] raises IndexError
\* on an empty list
VideoTimeSteps ==
    /\ prog = "video" /\ pc = "time_steps"
    /\ time_steps' = TimeStepsOf(df)
    /\ IF TimeStepsOf(df) = <<>>
       THEN /\ pc' = "crashed"
            /\ err' = "IndexError"
            /\ log' = Append(log, "found_time_steps")
       ELSE /\ pc' = "plot_bounds"
            /\ err' = err
            /\ log' = log \o <<"found_time_steps", "time_step_range">>
    /\ UNCHANGED <<prog, csv, df, plot_bounds, ax_patches, eps_patches,
                   cell_patches, title, frame, frames, attempts, results, raised>>

\* lines 48-90: the plot bounds and the axis limits
VideoPlotBounds ==
    /\ prog = "video" /\ pc = "plot_bounds"
    /\ plot_bounds' = calc_bounds(df, time_steps)
    /\ log' = Append(log, IF time_steps = <<>> THEN "warning_no_time_steps"
                          ELSE IF TickData(df, time_steps[Len(time_steps)]) = <<>>
                               THEN "warning_no_data_in_last_tick"
                               ELSE "dynamic_plot_bounds")
    /\ pc' = "save_mp4"
    /\ UNCHANGED <<prog, csv, df, time_steps, ax_patches, eps_patches,
                   cell_patches, title, frame, frames, attempts, results, raised, err>>

\* animate(frame), frame counted from 0: the state of the axis after it
animate_tick_reversed(f) == time_steps[Len(time_steps) - f]

animate_tick(f) == time_steps[f + 1]
animate_eps(f) == draw_eps(TickData(df, animate_tick(f)))
animate_cells(f) == draw_cells(TickData(df, animate_tick(f)))
animate_ax_keeps_old(f) == ax_patches \o animate_eps(f) \o animate_cells(f)

animate_ax(f) == RemoveAll(ax_patches, eps_patches \o cell_patches) \o animate_eps(f) \o animate_cells(f)

Animate(f) ==
    /\ eps_patches' = animate_eps(f)
    /\ cell_patches' = animate_cells(f)
    /\ ax_patches' = animate_ax(f)
    /\ title' = animate_tick(f)

Sink == attempts[Len(attempts)]

SetLast(s, x) == [s EXCEPT ![Len(s)] = x]

SaveFailedSkipsGif ==
    /\ log' = log \o <<"error_saving_video", "showing_window">>
    /\ results' = Append(SetLast(results, "failed"), "shown")
    /\ attempts' = Append(attempts, "show")
    /\ pc' = "complete"

\* lines 170-181: what the except clauses do with an exception raised while saving
SaveFailed ==
    IF Sink = "mp4"
    THEN /\ log' = log \o <<"error_saving_video", "trying_alternative">>
         /\ results' = SetLast(results, "failed")
         /\ attempts' = attempts
         /\ pc' = "save_gif"
    ELSE /\ log' = log \o <<"error_saving_gif", "showing_window">>
         /\ results' = Append(SetLast(results, "failed"), "shown")
         /\ attempts' = Append(attempts, "show")
         /\ pc' = "complete"

\* line 164: animation.writers['ffmpeg'] raises when ffmpeg is not installed
WriterUnavailable ==
    /\ prog = "video" /\ pc = "save_mp4"
    /\ attempts' = <<"mp4">>
    /\ results' = <<"failed">>
    /\ log' = log \o <<"saving_video", "error_saving_video", "trying_alternative">>
    /\ raised' = "writer"
    /\ pc' = "save_gif"
    /\ UNCHANGED <<prog, csv, df, time_steps, plot_bounds, ax_patches, eps_patches,
                   cell_patches, title, frame, frames, err>>

\* lines 162-168: anim.save starts; FuncAnimation draws frame 0 once before
\* the first frame is grabbed
SaveVideo ==
    /\ prog = "video" /\ pc = "save_mp4"
    /\ attempts' = <<"mp4">>
    /\ results' = <<"running">>
    /\ log' = Append(log, "saving_video")
    /\ frame' = 0
    /\ frames' = <<>>
    /\ Animate(0)
    /\ pc' = "saving"
    /\ UNCHANGED <<prog, csv, df, time_steps, plot_bounds, raised, err>>

\* lines 173-176: anim.save with the pillow writer starts
SaveGif ==
    /\ prog = "video" /\ pc = "save_gif"
    /\ attempts' = Append(attempts, "gif")
    /\ results' = Append(results, "running")
    /\ frame' = 0
    /\ frames' = <<>>
    /\ Animate(0)
    /\ pc' = "saving"
    /\ UNCHANGED <<prog, csv, df, time_steps, plot_bounds, log, raised, err>>

\* one turn of the save loop (frames=len(time_steps)): animate(frame), then
\* the writer grabs the figure
SaveFrame ==
    /\ prog = "video" /\ pc = "saving"
    /\ frame < Len(time_steps)
    /\ Animate(frame)
    /\ frames' = Append(frames, animate_tick(frame))
    /\ frame' = frame + 1
    /\ UNCHANGED <<prog, csv, pc, df, time_steps, plot_bounds, attempts, results,
                   log, raised, err>>

\* animate(frame) raises: animate has no handler, so the exception leaves
\* anim.save and reaches the except clause of the sink
AnimateRaises ==
    /\ prog = "video" /\ pc = "saving"
    /\ frame < Len(time_steps)
    /\ raised' = "animate"
    /\ SaveFailed
    /\ UNCHANGED <<prog, csv, df, time_steps, plot_bounds, ax_patches, eps_patches,
                   cell_patches, title, frame, frames, err>>

\* the writer raises while grabbing the frame just drawn
GrabFrameRaises ==
    /\ prog = "video" /\ pc = "saving"
    /\ frame < Len(time_steps)
    /\ Animate(frame)
    /\ raised' = "writer"
    /\ SaveFailed
    /\ UNCHANGED <<prog, csv, df, time_steps, plot_bounds, frame, frames, err>>

\* lines 169, 177: anim.save returns
SaveDone ==
    /\ prog = "video" /\ pc = "saving"
    /\ frame = Len(time_steps)
    /\ results' = SetLast(results, "saved")
    /\ log' = Append(log, IF Sink = "mp4" THEN "video_saved" ELSE "gif_saved")
    /\ pc' = "complete"
    /\ UNCHANGED <<prog, csv, df, time_steps, plot_bounds, ax_patches, eps_patches,
                   cell_patches, title, frame, frames, attempts, raised, err>>

\* line 183
AnimationComplete ==
    /\ prog = "video" /\ pc = "complete"
    /\ log' = Append(log, "animation_complete")
    /\ pc' = "done"
    /\ UNCHANGED <<prog, csv, df, time_steps, plot_bounds, ax_patches, eps_patches,
                   cell_patches, title, frame, frames, attempts, results, raised, err>>

\* ------------------------------------------------------ final-state viewer
\* TkinterBiofilmViewer.load_data
ViewerLoadData ==
    /\ prog = "viewer" /\ pc = "ingest"
    /\ df' = viewer_ingest(csv)
    /\ time_steps' = TimeStepsOf(viewer_ingest(csv))
    /\ log' = Append(log, "found_time_steps")
    /\ pc' = "plot_bounds"
    /\ UNCHANGED <<prog, csv, plot_bounds, ax_patches, eps_patches, cell_patches,
                   title, frame, frames, attempts, results, raised, err>>

\* TkinterBiofilmViewer.setup_plot_bounds: min_x - padding on str values
\* raises TypeError
ViewerSetupPlotBounds ==
    /\ prog = "viewer" /\ pc = "plot_bounds"
    /\ IF /\ time_steps # <<>>
          /\ NotFloat(TickData(df, time_steps[Len(time_steps)]),
                      {"pos_X", "pos_Y", "diameter", "length"})
       THEN /\ pc' = "crashed"
            /\ err' = "TypeError"
            /\ UNCHANGED <<plot_bounds, log>>
       ELSE /\ plot_bounds' = calc_bounds(df, time_steps)
            /\ log' = Append(log, IF time_steps = <<>> THEN "warning_no_time_steps"
                                  ELSE "dynamic_plot_bounds")
            /\ pc' = "plot_final_state"
            /\ err' = err
    /\ UNCHANGED <<prog, csv, df, time_steps, ax_patches, eps_patches, cell_patches,
                   title, frame, frames, attempts, results, raised>>

\* TkinterBiofilmViewer.plot_final_state (called by create_gui), with
\* save_image; np.arctan2 on str values raises TypeError
ViewerPlotFinalState ==
    /\ prog = "viewer" /\ pc = "plot_final_state"
    /\ IF time_steps = <<>>
       THEN /\ pc' = "mainloop"
            /\ UNCHANGED <<ax_patches, title, log, err>>
       ELSE LET td == TickData(df, time_steps[Len(time_steps)])
            IN IF NotFloat(Cells(td), {"orientation_X", "orientation_Y"})
               THEN /\ pc' = "crashed"
                    /\ err' = "TypeError"
                    /\ UNCHANGED <<ax_patches, title, log>>
               ELSE /\ ax_patches' = draw_eps(td) \o draw_cells(td)
                    /\ title' = time_steps[Len(time_steps)]
                    /\ log' = Append(log, "image_saved")
                    /\ pc' = "mainloop"
                    /\ err' = err
    /\ UNCHANGED <<prog, csv, df, time_steps, plot_bounds, eps_patches, cell_patches,
                   frame, frames, attempts, results, raised>>

\* TkinterBiofilmViewer.on_closing: the window is closed, sys.exit(0)
ViewerOnClosing ==
    /\ prog = "viewer" /\ pc = "mainloop"
    /\ log' = Append(log, "application_closed")
    /\ pc' = "done"
    /\ UNCHANGED <<prog, csv, df, time_steps, plot_bounds, ax_patches, eps_patches,
                   cell_patches, title, frame, frames, attempts, results, raised, err>>

Next ==
    \/ VideoIngest
    \/ VideoTimeSteps
    \/ VideoPlotBounds
    \/ WriterUnavailable
    \/ SaveVideo
    \/ SaveGif
    \/ SaveFrame
    \/ AnimateRaises
    \/ GrabFrameRaises
    \/ SaveDone
    \/ AnimationComplete
    \/ ViewerLoadData
    \/ ViewerSetupPlotBounds
    \/ ViewerPlotFinalState
    \/ ViewerOnClosing

Spec == Init /\ [][Next]_vars

\* ------------------------------------------------------------- properties
Ingested == pc # "ingest"
TicksKnown == pc \notin {"ingest", "time_steps"}
BoundsKnown == pc \in {"save_mp4", "save_gif", "saving", "complete", "plot_final_state", "mainloop", "done"}
SeqSet(s) == {s[i] : i \in 1..Len(s)}
Count(s, x) == Cardinality({i \in 1..Len(s) : s[i] = x})
DfTicks == {df[i].tick_num.v : i \in 1..Len(df)}
NthSmallest(S, n) == CHOOSE x \in S : Cardinality({y \in S : y < x}) = n - 1
LastTickData == TickData(df, time_steps[Len(time_steps)])
Saved == results # <<>> /\ results[Len(results)] = "saved"

\* C1: in video mode the frames handed to the encoder in one save pass are
\* the ticks in ascending order - frame N (0-based) is built from the
\* (N+1)-th smallest tick, nothing dropped, repeated or reordered - and a
\* pass that completes has handed over exactly one frame per distinct tick.
C1_FramesFollowTickOrder ==
    (prog = "video" /\ TicksKnown) =>
        /\ Len(frames) <= Cardinality(DfTicks)
        /\ \A n \in 1..Len(frames) : frames[n] = NthSmallest(DfTicks, n)
        /\ Saved => Len(frames) = Cardinality(DfTicks)

C1_Witness ==
    /\ prog = "video" /\ pc = "done" /\ Saved
    /\ Len(frames) >= 2
    /\ \E i, j \in 1..Len(df) : i < j /\ df[i].tick_num.v > df[j].tick_num.v

\* C2: with zero valid rows after cleaning the tick sequence is empty, the
\* viewport is the default box (0,100)x(0,100) and neither program stops
\* with an error.
C2_EmptyDatasetIsNotFatal ==
    (Ingested /\ df = <<>>) =>
        /\ pc # "crashed"
        /\ time_steps = <<>>
        /\ BoundsKnown => plot_bounds = DefaultBounds

\* C3: in video mode a failure to build one tick's frame only skips that
\* frame: the sink in use is not marked failed and the run is not diverted
\* to a fallback sink.
C3_FrameFailureIsLocal ==
    raised = "animate" =>
        /\ attempts = <<"mp4">>
        /\ results[1] # "failed"
        /\ pc # "save_gif"

\* C4: when the last tick has records, the viewport contains every position
\* of that tick and each margin is the non-negative padding
\* 2 * max(largest diameter, largest length) of that tick.
C4_ViewportContainsLastTick ==
    (BoundsKnown /\ time_steps # <<>>) =>
        LET pad == 2 * Max2(SetMax(ColVals(LastTickData, "diameter")),
                            SetMax(ColVals(LastTickData, "length")))
        IN /\ pad >= 0
           /\ \A i \in 1..Len(LastTickData) :
                /\ plot_bounds.min_x <= LastTickData[i].pos_X.v
                /\ LastTickData[i].pos_X.v <= plot_bounds.max_x
                /\ plot_bounds.min_y <= LastTickData[i].pos_Y.v
                /\ LastTickData[i].pos_Y.v <= plot_bounds.max_y
           /\ SetMin(ColVals(LastTickData, "pos_X")) - plot_bounds.min_x = pad
           /\ plot_bounds.max_x - SetMax(ColVals(LastTickData, "pos_X")) = pad
           /\ SetMin(ColVals(LastTickData, "pos_Y")) - plot_bounds.min_y = pad
           /\ plot_bounds.max_y - SetMax(ColVals(LastTickData, "pos_Y")) = pad

\* C5: the tick sequence is strictly increasing (so duplicate-free) and holds
\* exactly the tick values of the rows that survived cleaning, also when the
\* rows carry ticks out of order or repeated.
C5_TickSequenceSortedUnique ==
    ((prog = "video" /\ TicksKnown) \/ (prog = "viewer" /\ Ingested)) =>
        /\ \A i \in 1..(Len(time_steps) - 1) : time_steps[i] < time_steps[i + 1]
        /\ SeqSet(time_steps) = DfTicks

C5_Witness ==
    /\ TicksKnown
    /\ Len(time_steps) = 2
    /\ Len(df) = 2 /\ Len(csv) = 2
    /\ df[1].tick_num.v > df[2].tick_num.v

C5_WitnessRepeated ==
    /\ TicksKnown
    /\ Len(df) = 2 /\ df[1].tick_num.v = df[2].tick_num.v
    /\ Len(time_steps) = 1

\* C6: in both programs a row that fails numeric coercion on a required
\* numeric field is dropped at ingestion: no surviving record carries a
\* non-numeric value in such a field, and no such row causes an error.
C6_NoNonNumericSurvives ==
    Ingested =>
        /\ \A i \in 1..Len(df) :
              \A c \in NumericSet \cup {"tick_num"} : df[i][c].k = "num"
        /\ err # "TypeError"

\* C7: every record that survives ingestion has diameter > 0.
C7_DiameterPositive ==
    Ingested => \A i \in 1..Len(df) : df[i].diameter.k = "num" => df[i].diameter.v > 0

\* C8: the sinks are tried in the order video encoder, image sequence,
\* display; a sink is attempted only after every earlier one failed, none
\* after one succeeded, and every move to a fallback sink is logged.
C8_SinkOrder ==
    LET order == <<"mp4", "gif", "show">>
    IN /\ Len(attempts) <= 3
       /\ Len(results) = Len(attempts)
       /\ \A i \in 1..Len(attempts) : attempts[i] = order[i]
       /\ \A i \in 1..(Len(attempts) - 1) : results[i] = "failed"
       /\ Count(log, "error_saving_video") = (IF Count(results, "failed") >= 1 THEN 1 ELSE 0)
       /\ Count(log, "trying_alternative") = (IF Count(results, "failed") >= 1 THEN 1 ELSE 0)
       /\ Count(log, "error_saving_gif") = (IF Count(results, "failed") >= 2 THEN 1 ELSE 0)
       /\ Count(log, "showing_window") = (IF Count(results, "failed") >= 2 THEN 1 ELSE 0)
       /\ (pc = "save_gif") => (attempts = <<"mp4">> /\ results = <<"failed">>)
       /\ (Len(attempts) = 3) => results[3] = "shown"

C8_Witness ==
    /\ pc = "done"
    /\ attempts = <<"mp4", "gif", "show">>
    /\ results = <<"failed", "failed", "shown">>

\* C9: no capsule drawn for a Cell has a negative body length (the builder
\* clamps it to zero or rejects the record), in either program.
C9_NoNegativeBodyLength ==
    \A i \in 1..Len(ax_patches) : ax_patches[i].kind = "rect" => ax_patches[i].w2 >= 0

\* the cell patches on the axis, and the cell records they were drawn from
DrawnCells == Cells(TickData(df, title))
DrawnCellPatches ==
    IF prog = "video" THEN cell_patches
    ELSE SubSeq(ax_patches, Len(Eps(TickData(df, title))) + 1, Len(ax_patches))
Sign(n) == IF n > 0 THEN 1 ELSE IF n < 0 THEN -1 ELSE 0

\* C10: for a Cell with length >= diameter the capsule is a rectangle of
\* width diameter and length (length - diameter) centred on the local
\* origin, with discs of radius diameter / 2 centred at
\* (-(length - diameter) / 2, 0) and (+(length - diameter) / 2, 0), so that it
\* spans length end to end; rotation comes before translation, so the
\* capsule's centre is the record's position and the caps lie along the
\* heading; with length = diameter the body is empty and both caps sit at
\* the position.  (Patch coordinates are doubled.)
C10_CapsuleGeometry ==
    (title # -1) =>
        /\ Len(DrawnCellPatches) = 3 * Len(DrawnCells)
        /\ \A j \in 1..Len(DrawnCells) :
            LET r == DrawnCells[j]
                d == r.diameter.v
                l == r.length.v
                body == DrawnCellPatches[3 * j - 2]
                left == DrawnCellPatches[3 * j - 1]
                right == DrawnCellPatches[3 * j]
                here == <<2 * r.pos_X.v, 2 * r.pos_Y.v>>
                ahead == <<Sign(r.orientation_X.v), Sign(r.orientation_Y.v)>>
            IN l >= d =>
                /\ body.kind = "rect" /\ left.kind = "circle" /\ right.kind = "circle"
                /\ body.w2 = 2 * (l - d) /\ body.h2 = 2 * d
                /\ 2 * body.x2 + body.w2 = 0 /\ 2 * body.y2 + body.h2 = 0
                /\ left.r2 = d /\ right.r2 = d
                /\ 2 * left.x2 = -body.w2 /\ left.y2 = 0
                /\ 2 * right.x2 = body.w2 /\ right.y2 = 0
                /\ (right.x2 + right.r2) - (left.x2 - left.r2) = 2 * l
                /\ Apply(body.T, <<0, 0>>) = here
                /\ Apply(right.T, <<right.x2, right.y2>>)
                     = <<here[1] + (l - d) * ahead[1], here[2] + (l - d) * ahead[2]>>
                /\ Apply(left.T, <<left.x2, left.y2>>)
                     = <<here[1] - (l - d) * ahead[1], here[2] - (l - d) * ahead[2]>>
                /\ (l = d) => /\ body.w2 = 0
                              /\ Apply(left.T, <<left.x2, left.y2>>) = here
                              /\ Apply(right.T, <<right.x2, right.y2>>) = here

C10_Witness ==
    /\ title # -1
    /\ \E j \in 1..Len(DrawnCells) :
        /\ DrawnCells[j].length.v > DrawnCells[j].diameter.v
        /\ DrawnCells[j].pos_X.v # 0
        /\ DrawnCells[j].orientation_Y.v # 0
    /\ \E j \in 1..Len(DrawnCells) :
        /\ DrawnCells[j].length.v = DrawnCells[j].diameter.v
        /\ DrawnCells[j].diameter.v > 0

\* ------------------------------------------- animate called in any order
\* animate(frame) called directly, once the script has set up the axis and
\* the two patch lists (line 94), with any valid frame index; frames keeps
\* the tick of every call made
AnimateCall ==
    /\ prog = "video" /\ pc = "save_mp4"
    /\ Len(frames) < MaxCalls
    /\ \E f \in 0..(Len(time_steps) - 1) :
          /\ Animate(f)
          /\ frames' = Append(frames, animate_tick(f))
    /\ UNCHANGED <<prog, csv, pc, df, time_steps, plot_bounds, frame, attempts,
                   results, log, raised, err>>

NextAnimate ==
    \/ VideoIngest
    \/ VideoTimeSteps
    \/ VideoPlotBounds
    \/ AnimateCall

SpecAnimate == Init /\ [][NextAnimate]_vars

\* C11: after any sequence of animate(frame) calls, in any order and with
\* repeats, the tracked patches (eps_patches + cell_patches) are the patches
\* on the axis and are exactly the shapes of the tick requested last: one
\* disc per eps record, then body, left cap and right cap per cell record;
\* nothing of an earlier frame is left, and every tracked patch is on the
\* axis, so the next clear step removes each patch once.
C11_TrackedPatchesAreLastTick ==
    (prog = "video" /\ frames # <<>>) =>
        LET td == TickData(df, frames[Len(frames)])
            tracked == eps_patches \o cell_patches
        IN /\ title = frames[Len(frames)]
           /\ ax_patches = tracked
           /\ Len(RemoveAll(ax_patches, tracked)) = Len(ax_patches) - Len(tracked)
           /\ Len(eps_patches) = Len(Eps(td))
           /\ \A i \in 1..Len(Eps(td)) :
                /\ eps_patches[i].kind = "circle"
                /\ eps_patches[i].x2 = 2 * Eps(td)[i].pos_X.v
                /\ eps_patches[i].y2 = 2 * Eps(td)[i].pos_Y.v
                /\ eps_patches[i].r2 = Eps(td)[i].diameter.v
           /\ Len(cell_patches) = 3 * Len(Cells(td))
           /\ \A j \in 1..Len(Cells(td)) :
                LET r == Cells(td)[j]
                    here == <<2 * r.pos_X.v, 2 * r.pos_Y.v>>
                IN /\ cell_patches[3 * j - 2].kind = "rect"
                   /\ cell_patches[3 * j - 2].w2 = 2 * (r.length.v - r.diameter.v)
                   /\ cell_patches[3 * j - 2].h2 = 2 * r.diameter.v
                   /\ cell_patches[3 * j - 1].kind = "circle"
                   /\ cell_patches[3 * j].kind = "circle"
                   /\ cell_patches[3 * j - 1].r2 = r.diameter.v
                   /\ cell_patches[3 * j].r2 = r.diameter.v
                   /\ \A m \in 0..2 : Apply(cell_patches[3 * j - m].T, <<0, 0>>) = here

\* three calls, the second for an earlier tick than the first, the third a
\* repeat of the second, the two ticks drawing different shapes
C11_Witness ==
    /\ prog = "video" /\ Len(frames) = 3
    /\ frames[1] > frames[2] /\ frames[2] = frames[3]
    /\ eps_patches \o cell_patches # <<>>
    /\ Eps(TickData(df, frames[1])) # <<>>
    /\ Cells(TickData(df, frames[3])) # <<>>

====
